---------------------------- MODULE Spec2Model ----------------------------
(***************************************************************************)
(* Order-book ingestion: CSV decoding, symbol metadata extraction, bulk    *)
(* persistence, per-day aggregation and the concurrent file orchestrator   *)
(* (src/orderbooks/orderbook.go, src/main.go).                             *)
(*                                                                         *)
(* Text is a sequence of one-character strings, so that the conversions    *)
(* of the code (strconv.Atoi, strconv.ParseFloat, time.Parse) are computed *)
(* character by character.  A time is [day, sec, nsec]: day counts the     *)
(* days since 0000-03-01 (UTC), sec the second of that day.                *)
(*                                                                         *)
(* The operators that scan a text bind it once, as a function of the code  *)
(* receives its argument by value (CHOOSE r \in {op(s) : s \in {str}}), so  *)
(* that a chain of them is evaluated once per link, also inside the        *)
(* ENABLED of the fairness conditions.                                     *)
(***************************************************************************)
EXTENDS Integers, Sequences, FiniteSets, TLC

(***************************************************************************)
(* Characters and text                                                     *)
(***************************************************************************)
DigitChars == {"0", "1", "2", "3", "4", "5", "6", "7", "8", "9"}

DigitVal(c) ==
    CASE c = "0" -> 0 [] c = "1" -> 1 [] c = "2" -> 2 [] c = "3" -> 3
      [] c = "4" -> 4 [] c = "5" -> 5 [] c = "6" -> 6 [] c = "7" -> 7
      [] c = "8" -> 8 [] c = "9" -> 9

\* isDigit(s, i) of package time, with the 1-based index of a sequence
isDigit(s, i) == i <= Len(s) /\ s[i] \in DigitChars

\* s[from:] of Go, from 0-based
Slice(s, from) == SubSeq(s, from + 1, Len(s))

AllDigits(str) == \A s \in {str} : \A i \in 1..Len(s) : s[i] \in DigitChars

RECURSIVE DigitsValue(_)
\* the base-10 value of a run of digits (0 for the empty run)
DigitsValue(str) ==
    LET value(s) ==
          IF Len(s) = 0 THEN 0
          ELSE 10 * DigitsValue(SubSeq(s, 1, Len(s) - 1)) + DigitVal(s[Len(s)])
    IN  CHOOSE r \in {value(s) : s \in {str}} : TRUE

\* a variant of Atoi that reads the leading digits and stops at the first
\* other character, as atoi of C does
AtoiPrefix(s) ==
    LET stop == IF \E i \in 1..Len(s) : s[i] \notin DigitChars
                THEN CHOOSE i \in 1..Len(s) :
                         s[i] \notin DigitChars /\ \A j \in 1..(i - 1) : s[j] \in DigitChars
                ELSE Len(s) + 1
    IN  [val |-> DigitsValue(SubSeq(s, 1, stop - 1)), err |-> stop <= Len(s) \/ Len(s) = 0]

\* strconv.Atoi: an optional sign, then one or more decimal digits;
\* any other text is a syntax error, reported with the value 0.
Atoi(s) ==
    LET signed == Len(s) > 0 /\ s[1] \in {"+", "-"}
        body   == IF signed THEN Slice(s, 1) ELSE s
    IN  IF Len(body) = 0 \/ ~AllDigits(body)
        THEN [val |-> 0, err |-> TRUE]
        ELSE [val |-> IF signed /\ s[1] = "-" THEN 0 - DigitsValue(body)
                      ELSE DigitsValue(body),
              err |-> FALSE]


\* position of the first character of s that is in cs, 0 when there is none
FirstIn(str, cs) ==
    LET first(s) ==
          IF \E i \in 1..Len(s) : s[i] \in cs
          THEN CHOOSE i \in 1..Len(s) :
                   s[i] \in cs /\ \A j \in 1..(i - 1) : s[j] \notin cs
          ELSE 0
    IN  CHOOSE r \in {first(s) : s \in {str}} : TRUE

RECURSIVE Pow10(_)
Pow10(n) == IF n <= 0 THEN 1 ELSE 10 * Pow10(n - 1)

RECURSIVE StripZeros(_)
\* a decimal [mant, exp] (mant * 10^exp) with the trailing zeros of a
\* fractional mantissa removed, so that equal values are equal records
StripZeros(f) ==
    IF f.mant = 0 THEN [mant |-> 0, exp |-> 0]
    ELSE IF f.exp < 0 /\ f.mant % 10 = 0
         THEN StripZeros([mant |-> f.mant \div 10, exp |-> f.exp + 1])
         ELSE f

\* strconv.ParseFloat(s, 64) on decimal text: [sign] digits [. digits]
\* [e [sign] digits], with at least one mantissa digit.  The value is kept
\* exactly, as mant * 10^exp; a syntax error is reported with the value 0.
\* (Hexadecimal floats, "inf" and "nan" are not decoded here.)
ParseFloat(s) ==
    LET zero    == [mant |-> 0, exp |-> 0]
        signed  == Len(s) > 0 /\ s[1] \in {"+", "-"}
        neg     == signed /\ s[1] = "-"
        body    == IF signed THEN Slice(s, 1) ELSE s
        epos    == FirstIn(body, {"e", "E"})
        mantTxt == IF epos = 0 THEN body ELSE SubSeq(body, 1, epos - 1)
        expTxt  == IF epos = 0 THEN <<>> ELSE Slice(body, epos)
        dot     == FirstIn(mantTxt, {"."})
        intTxt  == IF dot = 0 THEN mantTxt ELSE SubSeq(mantTxt, 1, dot - 1)
        fracTxt == IF dot = 0 THEN <<>> ELSE Slice(mantTxt, dot)
        e       == Atoi(expTxt)
        okMant  == AllDigits(intTxt) /\ AllDigits(fracTxt)
                   /\ Len(intTxt) + Len(fracTxt) >= 1
        okExp   == epos = 0 \/ ~e.err
        m       == DigitsValue(intTxt \o fracTxt)
    IN  IF okMant /\ okExp
        THEN [val |-> StripZeros([mant |-> IF neg THEN 0 - m ELSE m,
                                  exp  |-> (IF epos = 0 THEN 0 ELSE e.val)
                                           - Len(fracTxt)]),
              err |-> FALSE]
        ELSE [val |-> zero, err |-> TRUE]

(***************************************************************************)
(* Times                                                                   *)
(***************************************************************************)
\* 24 * time.Hour, in seconds
SecondsPerDay == 86400

isLeap(year) == year % 4 = 0 /\ (year % 100 # 0 \/ year % 400 = 0)

daysIn(month, year) ==
    IF month = 2 THEN (IF isLeap(year) THEN 29 ELSE 28)
    ELSE IF month \in {4, 6, 9, 11} THEN 30 ELSE 31

\* the day number of a civil date (time.Date's date part)
DaysFromCivil(year, month, day) ==
    LET y   == IF month <= 2 THEN year - 1 ELSE year
        era == y \div 400
        yoe == y - era * 400
        mp  == (month + 9) % 12
        doy == (153 * mp + 2) \div 5 + day - 1
        doe == yoe * 365 + yoe \div 4 - yoe \div 100 + doy
    IN  era * 146097 + doe

\* the civil date of a day number (Time.Year, Time.Month, Time.Day)
CivilFromDays(z) ==
    LET era == z \div 146097
        doe == z - era * 146097
        yoe == (doe - doe \div 1460 + doe \div 36524 - doe \div 146096) \div 365
        doy == doe - (365 * yoe + yoe \div 4 - yoe \div 100)
        mp  == (5 * doy + 2) \div 153
        d   == doy - (153 * mp + 2) \div 5 + 1
        m   == IF mp < 10 THEN mp + 3 ELSE mp - 9
    IN  [year |-> yoe + era * 400 + (IF m <= 2 THEN 1 ELSE 0), month |-> m, day |-> d]

\* time.Date(year, month, day, hour, min, sec, nsec, UTC)
Date(year, month, day, hour, min, sec, nsec) ==
    [day |-> DaysFromCivil(year, month, day),
     sec |-> hour * 3600 + min * 60 + sec, nsec |-> nsec]

ZeroTime == Date(1, 1, 1, 0, 0, 0, 0)

\* Time.Add of a whole number of seconds
Add(t, secs) ==
    LET total == t.sec + secs
    IN  [day |-> t.day + total \div SecondsPerDay, sec |-> total % SecondsPerDay,
         nsec |-> t.nsec]

\* t < u
Before(t, u) ==
    \/ t.day < u.day
    \/ t.day = u.day /\ t.sec < u.sec
    \/ t.day = u.day /\ t.sec = u.sec /\ t.nsec < u.nsec

\* getnum of package time: one or two digits (two when fixed)
getnum(str, fixed) ==
    LET num(s) ==
          IF ~isDigit(s, 1) THEN [ok |-> FALSE, val |-> 0, rest |-> s]
          ELSE IF ~isDigit(s, 2)
               THEN IF fixed THEN [ok |-> FALSE, val |-> 0, rest |-> s]
                    ELSE [ok |-> TRUE, val |-> DigitVal(s[1]), rest |-> Slice(s, 1)]
               ELSE [ok |-> TRUE, val |-> 10 * DigitVal(s[1]) + DigitVal(s[2]),
                     rest |-> Slice(s, 2)]
    IN  CHOOSE r \in {num(s) : s \in {str}} : TRUE

\* skip of package time for a one-character literal of the layout
skip(str, lit) ==
    LET lead(s) ==
          IF Len(s) >= 1 /\ s[1] = lit THEN [ok |-> TRUE, rest |-> Slice(s, 1)]
          ELSE [ok |-> FALSE, rest |-> s]
    IN  CHOOSE r \in {lead(s) : s \in {str}} : TRUE

\* the fractional second time.Parse accepts after the seconds field even
\* though the layout has none: [.,] digits, kept to nanoseconds
fraction(str) ==
    LET frac(s) ==
          IF Len(s) >= 2 /\ s[1] \in {".", ","} /\ isDigit(s, 2)
          THEN LET stop == FirstIn(Slice(s, 1), {s[i] : i \in 1..Len(s)} \ DigitChars)
                   n    == IF stop = 0 THEN Len(s) ELSE stop
                   kept == IF n > 10 THEN 10 ELSE n
               IN  [nsec |-> DigitsValue(SubSeq(s, 2, kept)) * Pow10(10 - kept),
                    rest |-> Slice(s, n)]
          ELSE [nsec |-> 0, rest |-> s]
    IN  CHOOSE r \in {frac(s) : s \in {str}} : TRUE

\* time.Parse("2006-01-02T15:04:05Z", s)
ParseTimestamp(s) ==
    LET okY  == Len(s) >= 4 /\ AllDigits(SubSeq(s, 1, 4))
        year == DigitsValue(SubSeq(s, 1, 4))
        l1   == skip(Slice(s, 4), "-")
        mo   == getnum(l1.rest, TRUE)
        l2   == skip(mo.rest, "-")
        dy   == getnum(l2.rest, TRUE)
        l3   == skip(dy.rest, "T")
        hr   == getnum(l3.rest, FALSE)
        l4   == skip(hr.rest, ":")
        mi   == getnum(l4.rest, TRUE)
        l5   == skip(mi.rest, ":")
        se   == getnum(l5.rest, TRUE)
        fr   == fraction(se.rest)
        l6   == skip(fr.rest, "Z")
        ok   == /\ okY /\ l1.ok /\ mo.ok /\ l2.ok /\ dy.ok /\ l3.ok /\ hr.ok
                /\ l4.ok /\ mi.ok /\ l5.ok /\ se.ok /\ l6.ok
                /\ Len(l6.rest) = 0
                /\ mo.val >= 1 /\ mo.val <= 12
                /\ hr.val < 24 /\ mi.val < 60 /\ se.val < 60
                /\ dy.val >= 1 /\ dy.val <= daysIn(mo.val, year)
    IN  IF ok
        THEN [err |-> FALSE,
              t |-> Date(year, mo.val, dy.val, hr.val, mi.val, se.val, fr.nsec)]
        ELSE [err |-> TRUE, t |-> ZeroTime]

\* startOfDay := time.Date(date.Year(), date.Month(), date.Day(), 0, 0, 0, 0, loc)
StartOfDay(t) ==
    LET c == CivilFromDays(t.day)
    IN  Date(c.year, c.month, c.day, 0, 0, 0, 0)

\* the BSON datetime of a time: milliseconds, the rest dropped
BSONDate(t) == [day |-> t.day, sec |-> t.sec, nsec |-> (t.nsec \div 1000000) * 1000000]

\* time.Parse("2006-01-02", s)
ParseDate(s) ==
    LET okY  == Len(s) >= 4 /\ AllDigits(SubSeq(s, 1, 4))
        year == DigitsValue(SubSeq(s, 1, 4))
        l1   == skip(Slice(s, 4), "-")
        mo   == getnum(l1.rest, TRUE)
        l2   == skip(mo.rest, "-")
        dy   == getnum(l2.rest, TRUE)
        ok   == /\ okY /\ l1.ok /\ mo.ok /\ l2.ok /\ dy.ok
                /\ Len(dy.rest) = 0
                /\ mo.val >= 1 /\ mo.val <= 12
                /\ dy.val >= 1 /\ dy.val <= daysIn(mo.val, year)
    IN  IF ok THEN [err |-> FALSE, t |-> Date(year, mo.val, dy.val, 0, 0, 0, 0)]
        ELSE [err |-> TRUE, t |-> ZeroTime]

DigitChar(n) ==
    CASE n = 0 -> "0" [] n = 1 -> "1" [] n = 2 -> "2" [] n = 3 -> "3"
      [] n = 4 -> "4" [] n = 5 -> "5" [] n = 6 -> "6" [] n = 7 -> "7"
      [] n = 8 -> "8" [] n = 9 -> "9"

\* n in decimal, zero-padded to width digits
Pad(n, width) == [i \in 1..width |-> DigitChar((n \div Pow10(width - i)) % 10)]

\* processDate.Format("02-01-2006")
FormatDDMMYYYY(t) ==
    LET c == CivilFromDays(t.day)
    IN  Pad(c.day, 2) \o <<"-">> \o Pad(c.month, 2) \o <<"-">> \o Pad(c.year, 4)

(***************************************************************************)
(* Metadata extractor                                                      *)
(***************************************************************************)
RECURSIVE strikeScan(_, _)
\* the loop of extractMetadata, i being the 0-based index it is at
strikeScan(symbol, i) ==
    IF i < 0 THEN 0
    ELSE IF symbol[i + 1] \in DigitChars THEN strikeScan(symbol, i - 1)
         ELSE IF i + 1 < Len(symbol) THEN Atoi(Slice(symbol, i + 1)).val
              ELSE 0

\* a variant of extractMetadata that checks the length before it looks
\* five characters back, and takes a shorter symbol for a call
extractMetadataChecked(symbol) ==
    [panic |-> FALSE,
     strikePrice |-> strikeScan(symbol, Len(symbol) - 1),
     optionType |-> IF Len(symbol) >= 5 /\ symbol[Len(symbol) - 5 + 1] = "P"
                    THEN "P" ELSE "C"]

\* extractMetadata(symbol); symbol[len(symbol)-5] is out of range, and the
\* call panics, when the symbol has fewer than 5 characters.
extractMetadata(symbol) ==
    IF Len(symbol) < 5
    THEN [panic |-> TRUE, strikePrice |-> 0, optionType |-> "C"]
    ELSE [panic |-> FALSE,
          strikePrice |-> strikeScan(symbol, Len(symbol) - 1),
          optionType |-> IF symbol[Len(symbol) - 5 + 1] = "P" THEN "P" ELSE "C"]

(***************************************************************************)
(* CSV decoder (the reading loop of LoadCSVFile)                           *)
(*                                                                         *)
(* A file is [readable, lines]; a line is [syntax, fields]: syntax is      *)
(* FALSE for a line encoding/csv rejects (a bare quote), fields are the    *)
(* texts of its columns.  The first line is the header.                    *)
(***************************************************************************)
\* a variant of ReadErr for a reader that takes records of any length
\* (FieldsPerRecord < 0): an error at end of file and on a line it cannot
\* parse only
ReadErrAnyLength(lines, k) ==
    \/ k > Len(lines)
    \/ ~lines[k].syntax

\* csv.Reader.Read on line k: an error at end of file, on a line it cannot
\* parse, and on a line whose field count is not the first record's
\* (FieldsPerRecord = 0 takes the count from the header).
ReadErr(lines, k) ==
    \/ k > Len(lines)
    \/ ~lines[k].syntax
    \/ Len(lines[k].fields) # Len(lines[1].fields)

\* a variant of MakeOrder that reads the quantity and the price one column
\* to the right
MakeOrderShifted(record, timestamp) ==
    LET md == extractMetadata(record[3])
    IN  [timestamp |-> timestamp,
         transaction_type |-> record[2],
         symbol |-> record[3],
         product |-> record[4],
         quantity |-> Atoi(record[6]).val,
         average_price |-> ParseFloat(record[7]).val,
         order_status |-> record[7],
         timestamp3 |-> 0,
         metadata |-> [strike_price |-> md.strikePrice, option_type |-> md.optionType]]

\* the Order built from a record (lines 140-155)
MakeOrder(record, timestamp) ==
    LET md == extractMetadata(record[3])
    IN  [timestamp |-> timestamp,
         transaction_type |-> record[2],
         symbol |-> record[3],
         product |-> record[4],
         quantity |-> Atoi(record[5]).val,
         average_price |-> ParseFloat(record[6]).val,
         order_status |-> record[7],
         timestamp3 |-> 0,
         metadata |-> [strike_price |-> md.strikePrice, option_type |-> md.optionType]]

RECURSIVE readLoopFirst(_, _, _, _)
\* a variant of readLoop that keeps as tradeDate the timestamp of the first
\* row, not of the last
readLoopFirst(lines, k, orders, tradeDate) ==
    IF ReadErr(lines, k)
    THEN [outcome |-> "ok", orders |-> orders, tradeDate |-> tradeDate]
    ELSE LET record == lines[k].fields
             ts     == IF Len(record) >= 1 THEN ParseTimestamp(record[1])
                       ELSE [err |-> TRUE, t |-> ZeroTime]
         IN  IF Len(record) < 7
             THEN [outcome |-> "panic", orders |-> <<>>, tradeDate |-> tradeDate]
             ELSE IF ts.err
             THEN [outcome |-> "timestamp", orders |-> <<>>, tradeDate |-> tradeDate]
             ELSE IF extractMetadata(record[3]).panic
             THEN [outcome |-> "panic", orders |-> <<>>, tradeDate |-> tradeDate]
             ELSE readLoopFirst(lines, k + 1, Append(orders, MakeOrder(record, ts.t)),
                                IF Len(orders) = 0 THEN ts.t ELSE tradeDate)

RECURSIVE readLoop(_, _, _, _)
\* the for loop of LoadCSVFile from line k on, with the orders and the
\* tradeDate gathered so far: a read error ends the loop, a timestamp that
\* does not parse returns an error, a record of fewer than 7 fields or a
\* symbol of fewer than 5 characters panics.
readLoop(lines, k, orders, tradeDate) ==
    IF ReadErr(lines, k)
    THEN [outcome |-> "ok", orders |-> orders, tradeDate |-> tradeDate]
    ELSE LET record == lines[k].fields
             ts     == IF Len(record) >= 1 THEN ParseTimestamp(record[1])
                       ELSE [err |-> TRUE, t |-> ZeroTime]
         IN  IF Len(record) < 7
             THEN [outcome |-> "panic", orders |-> <<>>, tradeDate |-> tradeDate]
             ELSE IF ts.err
             THEN [outcome |-> "timestamp", orders |-> <<>>, tradeDate |-> tradeDate]
             ELSE IF extractMetadata(record[3]).panic
             THEN [outcome |-> "panic", orders |-> <<>>, tradeDate |-> tradeDate]
             ELSE readLoop(lines, k + 1, Append(orders, MakeOrder(record, ts.t)), ts.t)

\* LoadCSVFile up to the end of its loop (lines 113-159)
Decode(file) ==
    IF ~file.readable
    THEN [outcome |-> "open", orders |-> <<>>, tradeDate |-> ZeroTime]
    ELSE IF Len(file.lines) = 0 \/ ~file.lines[1].syntax
    THEN [outcome |-> "header", orders |-> <<>>, tradeDate |-> ZeroTime]
    ELSE readLoop(file.lines, 2, <<>>, ZeroTime)

(***************************************************************************)
(* The store: the orders collection and the summary collection             *)
(***************************************************************************)
\* the document an Order is stored as: its time becomes a BSON datetime
OrderDoc(o) == [o EXCEPT !.timestamp = BSONDate(o.timestamp)]

\* a variant of Match whose window includes its end ($lte)
MatchInclusive(coll, startOfDay, endOfDay) ==
    SelectSeq(coll, LAMBDA o : ~Before(o.timestamp, startOfDay)
                               /\ ~Before(endOfDay, o.timestamp))

\* $match {timestamp: {$gte: startOfDay, $lt: endOfDay}}
Match(coll, startOfDay, endOfDay) ==
    SelectSeq(coll, LAMBDA o : ~Before(o.timestamp, startOfDay)
                               /\ Before(o.timestamp, endOfDay))

RECURSIVE SumCond(_, _)
\* $sum of {$cond: [{$eq: ["$transaction_type", side]}, "$quantity", 0]}
SumCond(docs, side) ==
    IF Len(docs) = 0 THEN 0
    ELSE (IF Head(docs).transaction_type = side THEN Head(docs).quantity ELSE 0)
         + SumCond(Tail(docs), side)

SideB == <<"B">>
SideS == <<"S">>

\* the aggregation pipeline of updateDailySummary: no result when no
\* document matches, one group otherwise
Aggregate(coll, startOfDay, endOfDay) ==
    LET docs == Match(coll, startOfDay, endOfDay)
    IN  IF Len(docs) = 0 THEN <<>>
        ELSE << [total_trades |-> Len(docs),
                 total_buy_quantity |-> SumCond(docs, SideB),
                 total_sell_quantity |-> SumCond(docs, SideS),
                 unique_symbols |-> {docs[i].symbol : i \in 1..Len(docs)}] >>

\* the DailySummary built from the first result (lines 229-236);
\* UniqueSymbols is left at its zero value
MakeSummary(result, startOfDay, now) ==
    [date |-> startOfDay,
     total_trades |-> result.total_trades,
     total_buy_quantity |-> result.total_buy_quantity,
     total_sell_quantity |-> result.total_sell_quantity,
     unique_symbols |-> 0,
     last_updated |-> now]

\* index of the first document of coll whose date is the given one, or 0
FindDate(coll, date) ==
    IF \E i \in 1..Len(coll) : coll[i].date = date
    THEN CHOOSE i \in 1..Len(coll) :
             coll[i].date = date /\ \A j \in 1..(i - 1) : coll[j].date # date
    ELSE 0

\* a variant of Upsert that only inserts: a day that has a summary keeps
\* it ($setOnInsert)
UpsertIfAbsent(coll, summary) ==
    IF \E i \in 1..Len(coll) : coll[i].date = summary.date THEN coll
    ELSE Append(coll, summary)

\* UpdateOne({date: startOfDay}, {$set: summary}, upsert): the first
\* matching document gets every field of summary, and summary is inserted
\* when no document matches
Upsert(coll, summary) ==
    LET i == FindDate(coll, summary.date)
    IN  IF i = 0 THEN Append(coll, summary)
        ELSE [coll EXCEPT ![i] = summary]

\* the error GetDailySummary returns when no document matches
NotFound == [found |-> FALSE]

\* a variant of GetDailySummaryOf that answers a day without a summary
\* with a summary of zeros
GetDailySummaryOrZero(coll, date) ==
    LET i == FindDate(coll, StartOfDay(date))
    IN  [found |-> TRUE,
         summary |-> IF i = 0
                     THEN MakeSummary([total_trades |-> 0, total_buy_quantity |-> 0,
                                       total_sell_quantity |-> 0], StartOfDay(date), 0)
                     ELSE coll[i]]

\* GetDailySummary(date): FindOne({date: startOfDay}), an error when absent
GetDailySummaryOf(coll, date) ==
    LET i == FindDate(coll, StartOfDay(date))
    IN  IF i = 0 THEN NotFound
        ELSE [found |-> TRUE, summary |-> coll[i]]

(***************************************************************************)
(* Inputs: the texts, rows and files the runs are given                     *)
(***************************************************************************)
MaxFiles == 2
MaxRuns == 3

Jan2024 == <<"2", "0", "2", "4", "-", "0", "1", "-">>
Midnight == <<"T", "0", "0", ":", "0", "0", ":", "0", "0", "Z">>
LastSecond == <<"T", "2", "3", ":", "5", "9", ":", "5", "9", "Z">>

Ts15Start == Jan2024 \o <<"1", "5">> \o Midnight
Ts15End == Jan2024 \o <<"1", "5">> \o LastSecond
Ts16Start == Jan2024 \o <<"1", "6">> \o Midnight
TsBad == <<"1", "5", "-", "0", "1", "-", "2", "0", "2", "4">>

SymCE == <<"N", "I", "F", "T", "Y", "2", "5", "J", "A", "N", "1", "8", "0", "0", "0", "C", "E">>
SymPE == <<"N", "I", "F", "T", "Y", "2", "5", "J", "A", "N", "1", "8", "0", "0", "0", "P", "E">>
SymP4 == <<"N", "F", "P", "4", "5", "0", "0">>
SymShort == <<"A", "B", "C">>
SymDigits == <<"1", "2", "3", "4", "5">>

Product == <<"M", "I", "S">>
Status == <<"O", "K">>

Row(ts, side, symbol, quantity, price) ==
    [syntax |-> TRUE, fields |-> <<ts, side, symbol, Product, quantity, price, Status>>]

Header ==
    [syntax |-> TRUE,
     fields |-> <<<<"t">>, <<"s">>, <<"y">>, <<"p">>, <<"q">>, <<"a">>, <<"o">>>>]

RowB10 == Row(Ts15Start, SideB, SymCE, <<"1", "0">>, <<"1", "0", "0", ".", "5">>)
RowB5 == Row(Ts15End, SideB, SymPE, <<"5">>, <<"9", "9">>)
RowS7 == Row(Ts15Start, SideS, SymP4, <<"7">>, <<"1", "0", "1">>)
RowX3 == Row(Ts15End, <<"X">>, SymDigits, <<"3">>, <<"5", "0">>)
RowS4 == Row(Ts16Start, SideS, SymPE, <<"4">>, <<"7", "5">>)
RowBadTs == Row(TsBad, SideB, SymCE, <<"2">>, <<"8", "0">>)
RowBadNum == Row(Ts15End, SideB, SymCE, <<"1", "2", "x">>, <<"9", ",", "5">>)
RowShortSym == Row(Ts15Start, SideS, SymShort, <<"6">>, <<"6", "0">>)
\* a line of three fields under a header of seven
RowThree == [syntax |-> TRUE, fields |-> <<Ts15Start, SideB, SymCE>>]

File(lines) == [readable |-> TRUE, lines |-> lines]

\* the files a directory may hold
Catalogue ==
    << File(<<Header, RowB10, RowB5, RowS7>>),
       File(<<Header, RowS4, RowX3, RowBadNum>>),
       File(<<Header, RowB10, RowBadTs>>),
       File(<<Header, RowS7, RowThree, RowBadTs>>),
       File(<<Header>>),
       File(<<Header, RowB5, RowShortSym>>),
       [readable |-> FALSE, lines |-> <<>>] >>

\* -date: a day that has files, a day that has none, and a text that is
\* no date
Date15 == <<"2", "0", "2", "4", "-", "0", "1", "-", "1", "5">>
Date16 == <<"2", "0", "2", "4", "-", "0", "1", "-", "1", "6">>
DateBad == <<"1", "5", "/", "0", "1", "/", "2", "0", "2", "4">>
ProcessDates == {Date15, Date16, DateBad}

\* the date in the name of the order-book files of the directory
NameDate == <<"1", "5", "-", "0", "1", "-", "2", "0", "2", "4">>

TaskIds == 1..MaxFiles

\* the days a summary may be asked for
LookupDates == {ParseTimestamp(Ts15End).t, ParseTimestamp(Ts16Start).t}

(***************************************************************************)
(* State                                                                   *)
(***************************************************************************)
VARIABLES
    dir,          \* the CSV directory: a sequence of [prefix, date, csv]
    processDate,  \* config.ProcessDate
    orders,       \* the orders collection
    summaries,    \* the daily summary collection
    clock,        \* time.Now(), as the number of summary writes so far
    run,          \* the number of the current run of the program
    mainpc,       \* where main is
    exit,         \* "running", or how the process ended
    matches,      \* processOrderBookFiles: the files Glob found
    wg,           \* processOrderBookFiles: the WaitGroup counter
    errorChan,    \* processOrderBookFiles: the buffered error channel
    obErr,        \* what processOrderBookFiles returned
    pfErr,        \* what processFiles returned
    pc,           \* per task: where LoadCSVFile is
    batch,        \* per task: the orders decoded
    tradeDate,    \* per task: the timestamp of the last decoded row
    results,      \* per task: the aggregation results
    err,          \* per task: what LoadCSVFile returned
    lookup,       \* the last result of GetDailySummary
    hist          \* per earlier run: its file, whether LoadCSVFile returned nil,
                  \* and the store the run left

inputVars == <<dir, processDate>>
storeVars == <<orders, summaries, clock>>
mainVars == <<mainpc, exit, matches, wg, errorChan, obErr, pfErr>>
taskVars == <<pc, batch, tradeDate, results, err>>
vars == <<inputVars, storeVars, run, mainVars, taskVars, lookup, hist>>

NoLookup == [asked |-> FALSE]

RECURSIVE SeqsUpTo(_, _)
\* the sequences over S of length at most n
SeqsUpTo(S, n) ==
    IF n = 0 THEN {<<>>}
    ELSE LET shorter == SeqsUpTo(S, n - 1)
         IN  shorter \cup {Append(q, x) : q \in {r \in shorter : Len(r) = n - 1}, x \in S}

\* a file of the directory: the prefix and the date of its name, and which
\* file of the catalogue its content is (0: the profit/loss file, not read
\* by LoadCSVFile)
DirEntry(c) == [prefix |-> "orderbook_", date |-> NameDate, csv |-> c]

\* os.Open(filename) and the lines csv.Reader reads from it
Content(f) == Catalogue[f.csv]

\* the state of a process that has just been started
ProcessStart ==
    /\ mainpc = "start"
    /\ exit = "running"
    /\ matches = <<>>
    /\ wg = 0
    /\ errorChan = <<>>
    /\ obErr = "unset"
    /\ pfErr = "unset"
    /\ pc = [t \in TaskIds |-> "idle"]
    /\ batch = [t \in TaskIds |-> <<>>]
    /\ tradeDate = [t \in TaskIds |-> ZeroTime]
    /\ results = [t \in TaskIds |-> <<>>]
    /\ err = [t \in TaskIds |-> "nil"]
    /\ lookup = NoLookup

\* the directories of at most n order-book files, each with the day's
\* profit/loss file beside them.  filepath.Glob lists the files in the
\* order of their names, which is taken to be the order of the catalogue.
Dirs(n) ==
    {[i \in 1..Len(cs) |-> DirEntry(cs[i])]
         \o << [prefix |-> "profitLoss", date |-> NameDate, csv |-> 0] >> :
     cs \in {c \in SeqsUpTo(1..Len(Catalogue), n) :
                 \A i \in 1..(Len(c) - 1) : c[i] <= c[i + 1]}}

Init ==
    /\ dir \in Dirs(MaxFiles)
    /\ processDate \in ProcessDates
    /\ orders = <<>>
    /\ summaries = <<>>
    /\ clock = 0
    /\ run = 1
    /\ hist = <<>>
    /\ ProcessStart

(***************************************************************************)
(* main and processFiles                                                   *)
(***************************************************************************)
\* log.Fatalf: the process ends as failed
Fatal == exit' = "fatal" /\ mainpc' = "exited"

\* main, lines 47-50: NewOrderBook connects or fails
NewOrderBook ==
    /\ exit = "running" /\ mainpc = "start"
    /\ \/ mainpc' = "connected" /\ UNCHANGED exit
       \/ Fatal
    /\ UNCHANGED <<inputVars, storeVars, run, matches, wg, errorChan, obErr,
                   pfErr, taskVars, lookup, hist>>

\* main, lines 59-75: the profit/loss repository and its first query
LoadProfitLoss ==
    /\ exit = "running" /\ mainpc = "connected"
    /\ \/ mainpc' = "ready" /\ UNCHANGED exit
       \/ Fatal
    /\ UNCHANGED <<inputVars, storeVars, run, matches, wg, errorChan, obErr,
                   pfErr, taskVars, lookup, hist>>

\* processFiles, lines 105-108: the date is parsed; when it does not parse
\* processFiles returns the error and main (line 78) ends the run as failed
ParseProcessDate ==
    /\ exit = "running" /\ mainpc = "ready"
    /\ IF ParseDate(processDate).err
       THEN pfErr' = "date" /\ Fatal
       ELSE mainpc' = "glob" /\ UNCHANGED <<pfErr, exit>>
    /\ UNCHANGED <<inputVars, storeVars, run, matches, wg, errorChan, obErr,
                   taskVars, lookup, hist>>

\* filepath.Glob("orderbook_*<date>*.csv")
Glob(d, date) ==
    SelectSeq(d, LAMBDA f : f.prefix = "orderbook_" /\ f.date = FormatDDMMYYYY(date))

\* processOrderBookFiles, lines 125-137: the files are listed; with no file
\* the function returns an error, otherwise the channel is made
GlobFiles ==
    /\ exit = "running" /\ mainpc = "glob"
    /\ LET found == Glob(dir, ParseDate(processDate).t)
       IN  IF Len(found) = 0
           THEN /\ obErr' = "nofiles" /\ mainpc' = "obreturned"
                /\ UNCHANGED <<matches, errorChan>>
           ELSE /\ matches' = found /\ errorChan' = <<>>
                /\ mainpc' = "launch"
                /\ UNCHANGED obErr
    /\ UNCHANGED <<inputVars, storeVars, run, exit, wg, pfErr, taskVars, lookup, hist>>

\* whether the loop skips a matched file (line 141)
Skipped(f) == f.prefix = "profitLoss"

\* processOrderBookFiles, lines 139-156: the loop over the matches; a file
\* whose name starts with profitLoss is skipped, every other one gets a
\* goroutine (wg.Add(1), go func)
Launch ==
    /\ exit = "running" /\ mainpc = "launch"
    /\ LET started == {i \in 1..Len(matches) : ~Skipped(matches[i])}
       IN  /\ wg' = wg + Cardinality(started)
           /\ pc' = [t \in TaskIds |-> IF t \in started THEN "start" ELSE pc[t]]
    /\ mainpc' = "wait"
    /\ UNCHANGED <<inputVars, storeVars, run, exit, matches, errorChan,
                   obErr, pfErr, batch, tradeDate, results, err, lookup, hist>>

\* the error processOrderBookFiles returns after close(errorChan): the
\* first one received (lines 163-169)
FirstError(ch) == IF Len(ch) = 0 THEN "nil" ELSE Head(ch).err

\* processOrderBookFiles, lines 159-169: wg.Wait() returns when the counter
\* is zero; the channel is closed and drained
WaitAndCollect ==
    /\ exit = "running" /\ mainpc = "wait"
    /\ wg = 0
    /\ obErr' = FirstError(errorChan)
    /\ mainpc' = "obreturned"
    /\ UNCHANGED <<inputVars, storeVars, run, exit, matches, wg, errorChan,
                   pfErr, taskVars, lookup, hist>>

\* what processFiles returns once processOrderBookFiles has returned e
\* (lines 111-120): e is printed, the profit/loss file is processed and its
\* error printed, and nil is returned
ProcessFilesResult(e) == "nil"

\* processFiles, lines 111-120, and main, lines 78-86
FinishRun ==
    /\ exit = "running" /\ mainpc = "obreturned"
    /\ pfErr' = ProcessFilesResult(obErr)
    /\ IF pfErr' # "nil" THEN Fatal
       ELSE exit' = "ok" /\ mainpc' = "exited"
    /\ UNCHANGED <<inputVars, storeVars, run, matches, wg, errorChan, obErr,
                   taskVars, lookup, hist>>

(***************************************************************************)
(* One goroutine per file: LoadCSVFile and updateDailySummary              *)
(***************************************************************************)
Running(t) == exit = "running" /\ t \in 1..Len(matches)

\* LoadCSVFile returns e to the goroutine (main.go, lines 150-154): nil ends
\* the goroutine (wg.Done), an error is first to be sent on the channel
Return(t, e) ==
    /\ err' = [err EXCEPT ![t] = e]
    /\ IF e = "nil"
       THEN pc' = [pc EXCEPT ![t] = "done"] /\ wg' = wg - 1
       ELSE pc' = [pc EXCEPT ![t] = "failed"] /\ UNCHANGED wg

\* a panic in the goroutine of task t is not recovered: it ends the process
Panic(t) ==
    /\ exit' = "panic" /\ mainpc' = "exited"
    /\ pc' = [pc EXCEPT ![t] = "panicked"]

\* LoadCSVFile, lines 113-159 and 162: the file is opened and read to the
\* end of the loop; with no order decoded the function returns nil
TaskDecode(t) ==
    /\ Running(t) /\ pc[t] = "start"
    /\ LET d == Decode(Content(matches[t]))
       IN  CASE d.outcome = "panic" ->
                  /\ Panic(t)
                  /\ UNCHANGED <<wg, batch, tradeDate, results, err>>
             [] d.outcome = "ok" /\ Len(d.orders) > 0 ->
                  /\ pc' = [pc EXCEPT ![t] = "decoded"]
                  /\ batch' = [batch EXCEPT ![t] = d.orders]
                  /\ tradeDate' = [tradeDate EXCEPT ![t] = d.tradeDate]
                  /\ UNCHANGED <<mainpc, exit, wg, results, err>>
             [] d.outcome = "ok" /\ Len(d.orders) = 0 ->
                  /\ Return(t, "nil")
                  /\ UNCHANGED <<mainpc, exit, batch, tradeDate, results>>
             [] OTHER ->
                  /\ Return(t, d.outcome)
                  /\ UNCHANGED <<mainpc, exit, batch, tradeDate, results>>
    /\ UNCHANGED <<inputVars, storeVars, run, matches, errorChan, obErr,
                   pfErr, lookup, hist>>

\* a variant of Inserted that leaves out a document the collection
\* already holds
InsertedOnce(coll, docs) ==
    coll \o SelectSeq([i \in 1..Len(docs) |-> OrderDoc(docs[i])],
                      LAMBDA d : \A j \in 1..Len(coll) : coll[j] # d)

\* the collection after InsertMany has added the documents
Inserted(coll, docs) == coll \o [i \in 1..Len(docs) |-> OrderDoc(docs[i])]

\* LoadCSVFile, lines 163-166: InsertMany stores the batch, or fails having
\* stored the first k documents of it (an ordered bulk write stops at the
\* first document that fails)
TaskInsert(t) ==
    /\ Running(t) /\ pc[t] = "decoded"
    /\ \/ /\ orders' = Inserted(orders, batch[t])
          /\ pc' = [pc EXCEPT ![t] = "inserted"]
          /\ UNCHANGED <<wg, err>>
       \/ /\ \E k \in 0..(Len(batch[t]) - 1) :
                 orders' = Inserted(orders, SubSeq(batch[t], 1, k))
          /\ Return(t, "insert")
    /\ UNCHANGED <<inputVars, summaries, clock, run, mainpc, exit, matches,
                   errorChan, obErr, pfErr, batch, tradeDate, results, lookup, hist>>

\* a variant of TaskAggregate that works as a transaction: a failed
\* aggregation takes the batch out of the collection again
TaskAggregateRollback(t) ==
    /\ Running(t) /\ pc[t] = "inserted"
    /\ LET startOfDay == StartOfDay(tradeDate[t])
           endOfDay   == Add(startOfDay, SecondsPerDay)
       IN  \/ /\ results' = [results EXCEPT ![t] = Aggregate(orders, startOfDay, endOfDay)]
              /\ pc' = [pc EXCEPT ![t] = "aggregated"]
              /\ UNCHANGED <<wg, err, orders>>
           \/ /\ Return(t, "aggregate")
              /\ orders' = SubSeq(orders, 1, Len(orders) - Len(batch[t]))
              /\ UNCHANGED results
    /\ UNCHANGED <<inputVars, summaries, clock, run, mainpc, exit, matches,
                   errorChan, obErr, pfErr, batch, tradeDate, lookup, hist>>

\* updateDailySummary, lines 179-226: the day's window and the aggregation
TaskAggregate(t) ==
    /\ Running(t) /\ pc[t] = "inserted"
    /\ LET startOfDay == StartOfDay(tradeDate[t])
           endOfDay   == Add(startOfDay, SecondsPerDay)
       IN  \/ /\ results' = [results EXCEPT ![t] = Aggregate(orders, startOfDay, endOfDay)]
              /\ pc' = [pc EXCEPT ![t] = "aggregated"]
              /\ UNCHANGED <<wg, err>>
           \/ /\ Return(t, "aggregate")
              /\ UNCHANGED results
    /\ UNCHANGED <<inputVars, storeVars, run, mainpc, exit, matches,
                   errorChan, obErr, pfErr, batch, tradeDate, lookup, hist>>

\* the summary collection after lines 228-247 have run without error on
\* the aggregation results res: written when there is a result, left alone
\* when there is none
UpdatedSummaries(coll, res, startOfDay, now) ==
    IF Len(res) > 0 THEN Upsert(coll, MakeSummary(res[1], startOfDay, now))
    ELSE coll

\* updateDailySummary, lines 238-243, first half of UpdateOne: the store
\* looks for a document of the day.  The collection has no unique index on
\* date, so the store does not hold the look-up and the write that follows
\* together against another UpdateOne of the same day.
TaskMatch(t) ==
    /\ Running(t) /\ pc[t] = "aggregated" /\ Len(results[t]) > 0
    /\ pc' = [pc EXCEPT ![t] =
                  IF FindDate(summaries, StartOfDay(tradeDate[t])) = 0
                  THEN "unmatched" ELSE "matched"]
    /\ UNCHANGED <<inputVars, storeVars, run, mainpc, exit, matches, wg, errorChan,
                   obErr, pfErr, batch, tradeDate, results, err, lookup, hist>>

\* the summary collection after an UpdateOne that found no document of the
\* day when it looked: the summary is inserted
InsertedSummary(coll, res, startOfDay, now) ==
    Append(coll, MakeSummary(res[1], startOfDay, now))

\* updateDailySummary, lines 228-249: with a result the summary is written
\* (or the write fails); with none nothing is written
TaskUpsert(t) ==
    /\ Running(t)
    /\ \/ pc[t] \in {"matched", "unmatched"}
       \/ pc[t] = "aggregated" /\ Len(results[t]) = 0
    /\ \/ /\ summaries' = IF pc[t] = "unmatched"
                           THEN InsertedSummary(summaries, results[t],
                                                StartOfDay(tradeDate[t]), clock)
                           ELSE UpdatedSummaries(summaries, results[t],
                                                 StartOfDay(tradeDate[t]), clock)
          /\ clock' = IF Len(results[t]) > 0 THEN clock + 1 ELSE clock
          /\ Return(t, "nil")
       \/ /\ Len(results[t]) > 0
          /\ Return(t, "update")
          /\ UNCHANGED <<summaries, clock>>
    /\ UNCHANGED <<inputVars, orders, run, mainpc, exit, matches, errorChan,
                   obErr, pfErr, batch, tradeDate, results, lookup, hist>>

\* the goroutine, lines 151-152: the error is sent on the channel, which
\* takes it when it is not full, and the goroutine ends (wg.Done)
TaskSend(t) ==
    /\ Running(t) /\ pc[t] = "failed"
    /\ Len(errorChan) < Len(matches)
    /\ errorChan' = Append(errorChan, [file |-> t, err |-> err[t]])
    /\ pc' = [pc EXCEPT ![t] = "done"]
    /\ wg' = wg - 1
    /\ UNCHANGED <<inputVars, storeVars, run, mainpc, exit, matches, obErr,
                   pfErr, batch, tradeDate, results, err, lookup, hist>>

(***************************************************************************)
(* The summary reader, and the next run of the program                     *)
(***************************************************************************)
\* GetDailySummary(date), asked once a run has ended (displaySummary)
GetDailySummary(date) ==
    /\ exit # "running"
    /\ lookup' = [asked |-> TRUE, date |-> date,
                   result |-> GetDailySummaryOf(summaries, date)]
    /\ UNCHANGED <<inputVars, storeVars, run, mainVars, taskVars, hist>>

\* the program is started again, for the same date, on a directory that
\* holds at most one order-book file; the store keeps what the earlier
\* runs wrote
Restart ==
    /\ exit # "running" /\ run < MaxRuns
    /\ run' = run + 1
    /\ dir' \in Dirs(1)
    /\ mainpc' = "start"
    /\ exit' = "running"
    /\ matches' = <<>>
    /\ wg' = 0
    /\ errorChan' = <<>>
    /\ obErr' = "unset"
    /\ pfErr' = "unset"
    /\ pc' = [t \in TaskIds |-> "idle"]
    /\ batch' = [t \in TaskIds |-> <<>>]
    /\ tradeDate' = [t \in TaskIds |-> ZeroTime]
    /\ results' = [t \in TaskIds |-> <<>>]
    /\ err' = [t \in TaskIds |-> "nil"]
    /\ lookup' = NoLookup
    /\ hist' = Append(hist, [csv |-> IF Len(matches) = 1 THEN matches[1].csv ELSE 0,
                              ok |-> Len(matches) = 1 /\ pc[1] = "done" /\ err[1] = "nil",
                              orders |-> orders, summaries |-> summaries])
    /\ UNCHANGED <<processDate, storeVars>>

\* one run of the program: main, and the goroutines of its files
Next ==
    \/ NewOrderBook
    \/ LoadProfitLoss
    \/ ParseProcessDate
    \/ GlobFiles
    \/ Launch
    \/ WaitAndCollect
    \/ FinishRun
    \/ \E t \in TaskIds : TaskDecode(t)
    \/ \E t \in TaskIds : TaskInsert(t)
    \/ \E t \in TaskIds : TaskAggregate(t)
    \/ \E t \in TaskIds : TaskMatch(t)
    \/ \E t \in TaskIds : TaskUpsert(t)
    \/ \E t \in TaskIds : TaskSend(t)
    \/ \E d \in LookupDates : GetDailySummary(d)

Spec == Init /\ [][Next]_vars

\* the steps of main and of processOrderBookFiles, and those of the
\* goroutine of file t
MainStep ==
    \/ NewOrderBook \/ LoadProfitLoss \/ ParseProcessDate \/ GlobFiles
    \/ Launch \/ WaitAndCollect \/ FinishRun

TaskStep(t) ==
    \/ TaskDecode(t) \/ TaskInsert(t) \/ TaskAggregate(t)
    \/ TaskMatch(t) \/ TaskUpsert(t) \/ TaskSend(t)

\* one run in which every file and store operation returns and the Go
\* scheduler runs every goroutine that can run
SpecFair ==
    /\ Init /\ [][Next]_vars
    /\ WF_vars(MainStep)
    /\ \A t \in TaskIds : WF_vars(TaskStep(t))

\* runs one after another, each on at most one order-book file: no two
\* LoadCSVFile calls overlap
InitRerun ==
    /\ dir \in Dirs(1)
    /\ processDate \in ProcessDates
    /\ orders = <<>>
    /\ summaries = <<>>
    /\ clock = 0
    /\ run = 1
    /\ hist = <<>>
    /\ ProcessStart

NextRerun == Next \/ Restart

SpecRerun == InitRerun /\ [][NextRerun]_vars

(***************************************************************************)
(* What the properties are stated with                                     *)
(***************************************************************************)
\* the positions of the documents of coll whose time is in the calendar
\* day that starts at D
DayOrders(coll, D) == {i \in 1..Len(coll) : coll[i].timestamp.day = D.day}

RECURSIVE QuantityOf(_, _, _)
\* the sum of the quantities of the documents at the positions idx whose
\* side is the given one
QuantityOf(coll, idx, side) ==
    IF idx = {} THEN 0
    ELSE LET i == CHOOSE j \in idx : TRUE
         IN  (IF coll[i].transaction_type = side THEN coll[i].quantity ELSE 0)
             + QuantityOf(coll, idx \ {i}, side)

\* the summaries stored for the day that starts at D
SummariesOf(D) == {i \in 1..Len(summaries) : summaries[i].date = D}

\* the summary of day D is stored and states the count and the sums of
\* all the orders persisted for D
Reflects(D) ==
    /\ SummariesOf(D) # {}
    /\ \A i \in SummariesOf(D) :
           /\ summaries[i].total_trades = Cardinality(DayOrders(orders, D))
           /\ summaries[i].total_buy_quantity
                  = QuantityOf(orders, DayOrders(orders, D), SideB)
           /\ summaries[i].total_sell_quantity
                  = QuantityOf(orders, DayOrders(orders, D), SideS)

Launched == 1..Len(matches)

\* LoadCSVFile of task t has returned nil after storing orders
Ingested(t) == pc[t] = "done" /\ err[t] = "nil" /\ Len(batch[t]) > 0

\* every order task t decoded is of the day that starts at D
AllRowsIn(t, D) == \A i \in 1..Len(batch[t]) : batch[t][i].timestamp.day = D.day

(***************************************************************************)
(* C1: when two or more file tasks whose rows all fall in one day D have   *)
(* run concurrently and every task has returned nil, the summary stored    *)
(* for D states the count and the sums of all the orders persisted for D.  *)
(* The code does not keep this: a task may write the summary it computed   *)
(* before another task's insert, after that task wrote its own.            *)
(***************************************************************************)
C1_FinalSummaryIsAggregate ==
    (/\ mainpc \in {"obreturned", "exited"}
     /\ exit # "panic"
     /\ Len(matches) >= 2
     /\ \A t \in Launched : Ingested(t)
     /\ \A t \in Launched : AllRowsIn(t, StartOfDay(tradeDate[1])))
    => Reflects(StartOfDay(tradeDate[1]))

(***************************************************************************)
(* C2: when updateDailySummary(ref) has completed with no concurrent       *)
(* writer (the run has one file task, which returned nil), the summary     *)
(* keyed by startOfDay(ref) is stored, its totalTrades is the number of    *)
(* orders of that day, its totalBuyQuantity the sum of the quantities of   *)
(* the side-B orders of that day and its totalSellQuantity that of the     *)
(* side-S orders; orders of another side only count as trades, orders of   *)
(* another day count nowhere.                                              *)
(***************************************************************************)
C2_SummaryIsAggregate ==
    (Len(matches) = 1 /\ Ingested(1)) => Reflects(StartOfDay(tradeDate[1]))

\* 15 January holds the rows [B 10, B 5, S 7] of one file beside a side-X
\* order and a side-B order of quantity 0, 16 January holds an order too,
\* and the summary of 15 January is 5 / 15 / 7
C2_Witness ==
    /\ Len(matches) = 1 /\ Ingested(1)
    /\ \E i \in 1..Len(orders) : orders[i].transaction_type = <<"X">>
    /\ \E i \in 1..Len(orders) : orders[i].timestamp = ParseTimestamp(Ts16Start).t
    /\ \E i \in 1..Len(summaries) :
           /\ summaries[i].date = StartOfDay(tradeDate[1])
           /\ summaries[i].date = ParseTimestamp(Ts15Start).t
           /\ summaries[i].total_trades = 5
           /\ summaries[i].total_buy_quantity = 15
           /\ summaries[i].total_sell_quantity = 7

(***************************************************************************)
(* Files, as the properties speak of them                                  *)
(***************************************************************************)
\* the numbers of the data lines of a file
DataLines(file) == 2..Len(file.lines)

\* some data row of the file has a timestamp the layout does not parse
HasBadTimestamp(file) ==
    /\ file.readable
    /\ \E k \in DataLines(file) :
           /\ Len(file.lines[k].fields) >= 1
           /\ ParseTimestamp(file.lines[k].fields[1]).err

\* a header and one data row or more, every line of 7 columns, every data
\* row with a timestamp that parses and a symbol of 5 characters or more
WellFormed(file) ==
    /\ file.readable
    /\ Len(file.lines) >= 2
    /\ \A k \in 1..Len(file.lines) :
           file.lines[k].syntax /\ Len(file.lines[k].fields) = 7
    /\ \A k \in DataLines(file) :
           /\ ~ParseTimestamp(file.lines[k].fields[1]).err
           /\ Len(file.lines[k].fields[3]) >= 5

\* every quantity and every price of the file is numeric
Numeric(file) ==
    \A k \in DataLines(file) :
        /\ ~Atoi(file.lines[k].fields[5]).err
        /\ ~ParseFloat(file.lines[k].fields[6]).err

\* the stored Order a data row stands for
ExpectedDoc(row) ==
    [timestamp |-> ParseTimestamp(row[1]).t,
     transaction_type |-> row[2],
     symbol |-> row[3],
     product |-> row[4],
     quantity |-> Atoi(row[5]).val,
     average_price |-> ParseFloat(row[6]).val,
     order_status |-> row[7],
     timestamp3 |-> 0,
     metadata |-> [strike_price |-> extractMetadata(row[3]).strikePrice,
                   option_type |-> extractMetadata(row[3]).optionType]]

\* the stored Orders the data rows of a file stand for, in file order
ExpectedDocs(file) ==
    [i \in 1..(Len(file.lines) - 1) |-> ExpectedDoc(file.lines[i + 1].fields)]

\* which of the files a directory may hold are well formed
WellFormedOf == [c \in 1..Len(Catalogue) |-> WellFormed(Catalogue[c])]

\* what strconv and time.Parse make of the texts of a well-formed file's
\* data rows: whether the quantity and the price are in error, and the time
RowTexts(file) ==
    IF WellFormed(file)
    THEN [i \in 1..(Len(file.lines) - 1) |->
              [quantityErr |-> Atoi(file.lines[i + 1].fields[5]).err,
               priceErr    |-> ParseFloat(file.lines[i + 1].fields[6]).err,
               timestamp   |-> ParseTimestamp(file.lines[i + 1].fields[1]).t]]
    ELSE <<>>

\* RowTexts of every file a directory may hold
RowTextsOf == [c \in 1..Len(Catalogue) |-> RowTexts(Catalogue[c])]

(***************************************************************************)
(* C3: if any data row of a file has a timestamp that does not parse,      *)
(* LoadCSVFile returns an error for the file and stores nothing of it: the *)
(* task of such a file never gets to the insert, and when it has finished  *)
(* it has returned the timestamp error.  The code does not keep this: a    *)
(* line the CSV reader rejects before the bad row ends the reading loop as *)
(* the end of the file does, the rows read so far are stored, the summary  *)
(* is written and nil is returned.                                         *)
(***************************************************************************)
C3_BadTimestampFailsFile ==
    \A t \in Launched :
        HasBadTimestamp(Content(matches[t]))
        => /\ pc[t] \notin {"decoded", "inserted", "aggregated", "matched", "unmatched"}
           /\ pc[t] = "done" => err[t] = "timestamp"

(***************************************************************************)
(* C4: for a file of a header and N >= 1 well-formed data rows, the        *)
(* reading loop of LoadCSVFile ends with the insert to come, the insert    *)
(* adds exactly the N Orders of the rows to the store, in file order and   *)
(* after what the store held, each with the row's timestamp, side, symbol, *)
(* product, quantity, price and status and the extractor's metadata of its *)
(* symbol (the header gives no Order), and no other step of LoadCSVFile    *)
(* changes the orders.                                                     *)
(***************************************************************************)
C4_AddsOneOrderPerRow ==
    [][\A t \in Launched :
           (/\ pc'[t] # pc[t]
            /\ WellFormed(Content(matches[t]))
            /\ Numeric(Content(matches[t])))
           => /\ pc[t] = "start" => pc'[t] = "decoded"
              /\ (pc[t] = "decoded" /\ pc'[t] = "inserted")
                     => orders' = orders \o ExpectedDocs(Content(matches[t]))
              /\ pc[t] \in {"start", "inserted", "aggregated", "matched", "unmatched"}
                     => orders' = orders]_vars

\* the file [B 10 at 100.5, B 5, S 7] has been ingested into an empty store
C4_Witness ==
    /\ Len(matches) = 1 /\ Ingested(1)
    /\ WellFormed(Content(matches[1])) /\ Numeric(Content(matches[1]))
    /\ Len(orders) = 3
    /\ orders[1].quantity = 10 /\ orders[1].transaction_type = SideB
    /\ orders[1].average_price = [mant |-> 1005, exp |-> -1]
    /\ orders[1].timestamp = Date(2024, 1, 15, 0, 0, 0, 0)
    /\ orders[2].symbol = SymPE /\ orders[2].quantity = 5
    /\ orders[3].transaction_type = SideS /\ orders[3].quantity = 7
    /\ orders[3].metadata = [strike_price |-> 4500, option_type |-> "P"]

(***************************************************************************)
(* C5: a file is ingested by two runs in sequence, with no error.          *)
(***************************************************************************)
\* the run before this one ingested, with no error, the file this run has
\* ingested with no error
SameFileAgain ==
    /\ run >= 2 /\ Len(hist) = run - 1
    /\ Len(matches) = 1 /\ Ingested(1)
    /\ hist[run - 1].ok /\ hist[run - 1].csv = matches[1].csv

\* the orders the store held before the first of the two ingestions
OrdersBefore == IF run = 2 THEN <<>> ELSE hist[run - 2].orders

\* the summary the collection holds for the day that starts at D
SummaryOf(coll, D) == CHOOSE x \in {coll[i] : i \in 1..Len(coll)} : x.date = D

\* the store holds every row read from the file twice after what it held
\* before, in the order the rows were added
HoldsRowsTwice ==
    LET docs == [i \in 1..Len(batch[1]) |-> OrderDoc(batch[1][i])]
    IN  orders = OrdersBefore \o docs \o docs

\* each total of the day's summary is twice what it was after the first
\* ingestion
TotalsDoubled ==
    LET D    == StartOfDay(tradeDate[1])
        now  == SummaryOf(summaries, D)
        prev == SummaryOf(hist[run - 1].summaries, D)
    IN  /\ now.total_trades = 2 * prev.total_trades
        /\ now.total_buy_quantity = 2 * prev.total_buy_quantity
        /\ now.total_sell_quantity = 2 * prev.total_sell_quantity

\* C5 as stated: after the second of two ingestions of a file in sequence
\* the store holds every row of the file twice and the totals of the day's
\* summary are double those after the first ingestion.  This fails when
\* the store held orders of that day before the first ingestion: the
\* totals count them once, not twice.
C5_SecondIngestionDoubles ==
    SameFileAgain => (HoldsRowsTwice /\ TotalsDoubled)

\* C5, amended: after the second of two ingestions of a file in sequence
\* the store holds every row of the file twice, and the totals of the
\* day's summary are double those after the first ingestion provided the
\* store held no order of that day before the first ingestion.
C5_SecondIngestionDoublesFromEmptyDay ==
    SameFileAgain
    => /\ HoldsRowsTwice
       /\ DayOrders(OrdersBefore, StartOfDay(tradeDate[1])) = {} => TotalsDoubled

\* [B 10, B 5, S 7] has been ingested twice into a day that was empty:
\* six orders of that day, totals 6 / 30 / 14 after 3 / 15 / 7
C5_Witness ==
    /\ SameFileAgain
    /\ DayOrders(OrdersBefore, StartOfDay(tradeDate[1])) = {}
    /\ Cardinality(DayOrders(orders, StartOfDay(tradeDate[1]))) = 6
    /\ SummaryOf(hist[run - 1].summaries, StartOfDay(tradeDate[1])).total_trades = 3
    /\ SummaryOf(summaries, StartOfDay(tradeDate[1])).total_trades = 6
    /\ SummaryOf(summaries, StartOfDay(tradeDate[1])).total_buy_quantity = 30
    /\ SummaryOf(summaries, StartOfDay(tradeDate[1])).total_sell_quantity = 14

(***************************************************************************)
(* C6: in processOrderBookFiles a failure of one file's task never keeps   *)
(* the task of another file from running to completion (when the process   *)
(* has ended, every launched task but one that failed by a panic has run   *)
(* to its end); the function returns only after every launched task has    *)
(* finished, and it returns an error if and only if some task failed, the  *)
(* error being one the tasks returned.  The code does not keep the first:  *)
(* a panic in one task ends the process and with it the other tasks.       *)
(***************************************************************************)
C6_TasksIndependent ==
    /\ exit # "running" => \A t \in Launched : pc[t] \in {"done", "panicked"}
    /\ (Len(matches) > 0 /\ obErr # "unset")
       => /\ \A t \in Launched : pc[t] = "done"
          /\ obErr # "nil" <=> \E t \in Launched : err[t] # "nil"
          /\ obErr # "nil" => \E t \in Launched : err[t] = obErr

(***************************************************************************)
(* C7: every top-level failure of a run ends the process as failed: a run  *)
(* that ends as a success had no failing file task and no error from       *)
(* processOrderBookFiles, and an error processOrderBookFiles returned is   *)
(* what processFiles returns to main, which ends the run as failed; so     *)
(* does a date that does not parse.  The code does not keep this:          *)
(* processFiles prints the error of processOrderBookFiles and returns nil. *)
(***************************************************************************)
C7_FailuresEndTheRun ==
    /\ exit = "ok" => /\ obErr = "nil"
                      /\ \A t \in Launched : err[t] = "nil"
    /\ (mainpc = "exited" /\ obErr \notin {"unset", "nil"})
       => pfErr = obErr /\ exit = "fatal"
    /\ pfErr = "date" => exit = "fatal"

(***************************************************************************)
(* C8: the Order of a row with the symbol NIFTY25JAN18000CE has the strike *)
(* price 18000 and the option type C (call), and the Order of a row with   *)
(* the symbol NIFTY25JAN18000PE has the strike price 18000 and the option  *)
(* type P (put).  The code does not keep this: the scan for the strike     *)
(* stops at the last character when that is no digit and leaves 0, and the *)
(* character five from the end of ...18000PE is 0, not P.                  *)
(***************************************************************************)
C8_StrikeAndOptionType ==
    \A i \in 1..Len(orders) :
        /\ orders[i].symbol = SymCE
           => orders[i].metadata = [strike_price |-> 18000, option_type |-> "C"]
        /\ orders[i].symbol = SymPE
           => orders[i].metadata = [strike_price |-> 18000, option_type |-> "P"]

(***************************************************************************)
(* C9: a data row whose quantity or price text is not numeric never fails  *)
(* the file: reading a file that is well-formed but for such texts ends    *)
(* with no error of the reader and one Order per row, the Order of such a  *)
(* row has the quantity 0 (the price 0) and the row's other fields, and    *)
(* once LoadCSVFile has returned nil the Order is in the store and the     *)
(* day's summary counts it as a trade and adds its 0 to the sums.          *)
(***************************************************************************)
C9_NonNumericIsZero ==
    \A t \in Launched :
        (pc[t] \notin {"idle", "start"} /\ WellFormedOf[matches[t].csv])
        => LET file == Content(matches[t])
               rows == RowTextsOf[matches[t].csv]
           IN  /\ err[t] \notin {"open", "header", "timestamp"}
               /\ Len(batch[t]) = Len(file.lines) - 1
               /\ \A k \in DataLines(file) :
                      LET row == file.lines[k].fields
                          o   == batch[t][k - 1]
                      IN  /\ rows[k - 1].quantityErr => o.quantity = 0
                          /\ rows[k - 1].priceErr
                                 => o.average_price = [mant |-> 0, exp |-> 0]
                          /\ o.timestamp = rows[k - 1].timestamp
                          /\ o.transaction_type = row[2]
                          /\ o.symbol = row[3]
                          /\ o.product = row[4]
                          /\ o.order_status = row[7]
                          /\ Ingested(t)
                                 => \E i \in 1..Len(orders) : orders[i] = OrderDoc(o)
               /\ (Ingested(t) /\ Len(matches) = 1)
                      => Reflects(StartOfDay(tradeDate[t]))

\* the file whose last row is a side-B row of quantity "12x" and price
\* "9,5" has been ingested into an empty store: its Order is stored with
\* quantity 0 and price 0, and the summary of its day is 2 / 0 / 0
C9_Witness ==
    /\ Len(matches) = 1 /\ Ingested(1) /\ Len(orders) = 3
    /\ Content(matches[1]).lines[4] = RowBadNum
    /\ orders[3].symbol = SymCE /\ orders[3].transaction_type = SideB
    /\ orders[3].quantity = 0
    /\ orders[3].average_price = [mant |-> 0, exp |-> 0]
    /\ SummaryOf(summaries, StartOfDay(tradeDate[1])).total_trades = 2
    /\ SummaryOf(summaries, StartOfDay(tradeDate[1])).total_buy_quantity = 0

(***************************************************************************)
(* C10: a summary of day D is stored only if an aggregation found an Order *)
(* in D (every stored summary counts one trade or more and the store holds *)
(* an Order of its day); for a day with no Order the summary step writes   *)
(* nothing; and what GetDailySummary answered for a day with no summary is *)
(* the not-found error, also when Orders of that day are stored, and for a *)
(* day with a summary the stored summary.                                  *)
(***************************************************************************)
C10_SummaryOnlyFromOrders ==
    /\ \A i \in 1..Len(summaries) :
           /\ summaries[i].total_trades >= 1
           /\ DayOrders(orders, summaries[i].date) # {}
    /\ \A d \in LookupDates :
           DayOrders(orders, StartOfDay(d)) = {}
           => UpdatedSummaries(summaries,
                               Aggregate(orders, StartOfDay(d),
                                         Add(StartOfDay(d), SecondsPerDay)),
                               StartOfDay(d), clock) = summaries
    /\ lookup.asked
       => IF SummariesOf(StartOfDay(lookup.date)) = {}
          THEN lookup.result = NotFound
          ELSE /\ lookup.result.found
               /\ \E i \in SummariesOf(StartOfDay(lookup.date)) :
                      lookup.result.summary = summaries[i]

\* a summary is stored for one day, Orders are stored for another day that
\* has no summary, and GetDailySummary has answered not-found for that day
C10_Witness ==
    /\ lookup.asked
    /\ lookup.result = NotFound
    /\ DayOrders(orders, StartOfDay(lookup.date)) # {}
    /\ Len(summaries) >= 1

(***************************************************************************)
(* The store a run started from                                            *)
(***************************************************************************)
\* the orders and the summaries the store held when this run started
OrdersAtStart == IF run = 1 THEN <<>> ELSE hist[run - 1].orders

SummariesAtStart == IF run = 1 THEN <<>> ELSE hist[run - 1].summaries

\* the documents of the orders task t decoded
BatchDocs(t) == [i \in 1..Len(batch[t]) |-> OrderDoc(batch[t][i])]

(***************************************************************************)
(* C11: when files are ingested one after another, after each LoadCSVFile  *)
(* of a non-empty file that returned nil the store holds the orders of the *)
(* earlier files followed by the file's own, and the summary of the day of *)
(* the file's last row is stored with, as count and as buy and sell sums,  *)
(* those of the earlier files' orders of that day plus those of the file's *)
(* own rows of that day.                                                   *)
(***************************************************************************)
C11_SummaryCoversEarlierFiles ==
    (Len(matches) = 1 /\ Ingested(1))
    => LET D    == StartOfDay(tradeDate[1])
           old  == OrdersAtStart
           new  == BatchDocs(1)
       IN  /\ orders = old \o new
           /\ SummariesOf(D) # {}
           /\ \A i \in SummariesOf(D) :
                  /\ summaries[i].total_trades
                         = Cardinality(DayOrders(old, D)) + Cardinality(DayOrders(new, D))
                  /\ summaries[i].total_buy_quantity
                         = QuantityOf(old, DayOrders(old, D), SideB)
                           + QuantityOf(new, DayOrders(new, D), SideB)
                  /\ summaries[i].total_sell_quantity
                         = QuantityOf(old, DayOrders(old, D), SideS)
                           + QuantityOf(new, DayOrders(new, D), SideS)

\* a later run has ingested [B 10, B 5, S 7] into a store whose day
\* already had a summary and orders of an earlier file: the summary now
\* counts the earlier orders and the three new ones
C11_Witness ==
    /\ run >= 2 /\ Len(matches) = 1 /\ Ingested(1)
    /\ Len(batch[1]) = 3
    /\ DayOrders(OrdersAtStart, StartOfDay(tradeDate[1])) # {}
    /\ \E i \in 1..Len(SummariesAtStart) :
           SummariesAtStart[i].date = StartOfDay(tradeDate[1])
    /\ SummaryOf(summaries, StartOfDay(tradeDate[1])).total_trades
           = Cardinality(DayOrders(OrdersAtStart, StartOfDay(tradeDate[1]))) + 3
    /\ SummaryOf(summaries, StartOfDay(tradeDate[1])).total_buy_quantity >= 15

(***************************************************************************)
(* C12: a LoadCSVFile that returned nil has re-aggregated exactly one day, *)
(* the day of the last row it parsed: all the rows of the file are stored, *)
(* whatever their day; the summary of the last row's day is the one        *)
(* written last; and the summaries of every other day, the other days of   *)
(* the file's rows among them, are those the store held before the call.   *)
(***************************************************************************)
\* the summaries of coll that are not of the day that starts at D
OtherDays(coll, D) == SelectSeq(coll, LAMBDA x : x.date # D)

C12_OnlyLastRowsDayIsWritten ==
    (Len(matches) = 1 /\ Ingested(1))
    => LET D == StartOfDay(batch[1][Len(batch[1])].timestamp)
       IN  /\ tradeDate[1] = batch[1][Len(batch[1])].timestamp
           /\ orders = OrdersAtStart \o BatchDocs(1)
           /\ OtherDays(summaries, D) = OtherDays(SummariesAtStart, D)
           /\ \E i \in 1..Len(summaries) :
                  summaries[i].date = D /\ summaries[i].last_updated = clock - 1

\* the file with a row of 16 January followed by rows of 15 January has
\* been ingested: its order of 16 January is stored, 15 January has a
\* summary, 16 January has none
C12_Witness ==
    /\ Len(matches) = 1 /\ Ingested(1)
    /\ \E i \in 1..Len(batch[1]) :
           batch[1][i].timestamp.day # batch[1][Len(batch[1])].timestamp.day
    /\ \E i \in 1..Len(orders) : orders[i].timestamp = ParseTimestamp(Ts16Start).t
    /\ \E i \in 1..Len(summaries) : summaries[i].date = ParseTimestamp(Ts15Start).t
    /\ \A i \in 1..Len(summaries) : summaries[i].date # ParseTimestamp(Ts16Start).t

(***************************************************************************)
(* C13: the strike price of every stored Order is the value of the         *)
(* maximal run of digits its symbol ends with, 0 when the symbol ends in   *)
(* a character that is no digit, and the value of the whole symbol when    *)
(* the symbol is digits only.  The code does not keep the last: the scan   *)
(* of a symbol of digits only runs off its start without ever reading the  *)
(* number, and the strike price stays 0.                                   *)
(***************************************************************************)
RECURSIVE TrailingDigits(_)
\* the maximal run of digits a text ends with
TrailingDigits(s) ==
    IF Len(s) = 0 \/ s[Len(s)] \notin DigitChars THEN <<>>
    ELSE Append(TrailingDigits(SubSeq(s, 1, Len(s) - 1)), s[Len(s)])

C13_StrikeIsTrailingDigits ==
    \A i \in 1..Len(orders) :
        Len(orders[i].symbol) >= 5
        => orders[i].metadata.strike_price = DigitsValue(TrailingDigits(orders[i].symbol))

(***************************************************************************)
(* C14: in every reachable state, also while several file tasks of one day *)
(* run concurrently, the summary collection holds at most one summary per  *)
(* calendar day, keyed by the midnight of that day and with uniqueSymbols  *)
(* 0.  The code does not keep this: nothing makes date unique in the       *)
(* collection, so two UpdateOne calls of the same day that both look       *)
(* before either writes both insert.                                       *)
(***************************************************************************)
C14_OneSummaryPerDay ==
    /\ \A i, j \in 1..Len(summaries) :
           summaries[i].date.day = summaries[j].date.day => i = j
    /\ \A i \in 1..Len(summaries) :
           /\ summaries[i].date = StartOfDay(summaries[i].date)
           /\ summaries[i].unique_symbols = 0

\* every write of the summary collection either adds one summary at the
\* end or replaces all the fields of one summary with those of the result
\* just aggregated for its day; no step removes a summary
SummariesOnlyGrowOrReplace ==
    [][summaries' # summaries
       => \E t \in {u \in Launched : Len(results[u]) > 0} :
              LET new == MakeSummary(results[t][1], StartOfDay(tradeDate[t]), clock)
              IN  \/ summaries' = Append(summaries, new)
                  \/ \E i \in 1..Len(summaries) :
                         /\ summaries[i].date = new.date
                         /\ summaries' = [summaries EXCEPT ![i] = new]]_vars

(***************************************************************************)
(* C15: each launched task has at most one error in the channel, the       *)
(* errors queued never exceed the number of matched files, so a task with  *)
(* an error to send can always send it; the channel is drained only after  *)
(* every launched task has finished; and, every operation returning, a     *)
(* processOrderBookFiles that waits for its tasks eventually returns.      *)
(* The code does not keep the last: a task that panics ends the process    *)
(* while processOrderBookFiles waits.                                      *)
(***************************************************************************)
ChannelIsSafe ==
    /\ Len(errorChan) <= Len(matches)
    /\ \A t \in Launched :
           Cardinality({i \in 1..Len(errorChan) : errorChan[i].file = t}) <= 1
    /\ \A t \in Launched :
           (exit = "running" /\ pc[t] = "failed") => ENABLED TaskSend(t)
    /\ (Len(matches) > 0 /\ obErr # "unset") => \A t \in Launched : pc[t] = "done"

\* C15: the error channel is safe at every moment, and a
\* processOrderBookFiles that waits for its tasks eventually returns
C15_EventuallyReturns ==
    /\ []ChannelIsSafe
    /\ (mainpc = "wait") ~> (obErr # "unset")

\* a processOrderBookFiles that waits for its tasks returns unless a task
\* panics
ReturnsUnlessPanic ==
    /\ []ChannelIsSafe
    /\ (mainpc = "wait") ~> (obErr # "unset" \/ exit = "panic")

(***************************************************************************)
(* C16: the orders collection only grows, and no stored order changes:     *)
(* every step leaves the orders stored before it where they were, and the  *)
(* batch of a task that got past its InsertMany stays in the collection    *)
(* whatever happens afterwards (its own aggregation or summary write       *)
(* failing, another task failing or panicking).                            *)
(***************************************************************************)
\* task t got past InsertMany (lines 162-166) without an error
PastInsert(t) ==
    \/ pc[t] \in {"inserted", "aggregated", "matched", "unmatched"}
    \/ pc[t] \in {"failed", "done"} /\ err[t] \in {"aggregate", "update"}
    \/ pc[t] = "done" /\ err[t] = "nil"

\* the collection holds the documents of task t's batch, in a row
HoldsBatch(t) ==
    \E i \in 0..(Len(orders) - Len(batch[t])) :
        SubSeq(orders, i + 1, i + Len(batch[t])) = BatchDocs(t)

\* C16: a step keeps every stored order, unchanged and in place, and the
\* batches inserted so far are still stored after it
C16_OrdersOnlyGrow ==
    [][/\ Len(orders') >= Len(orders)
       /\ SubSeq(orders', 1, Len(orders)) = orders
       /\ \A t \in Launched : PastInsert(t)' => HoldsBatch(t)']_vars

\* one task's batch is stored and its aggregation or summary write failed,
\* while the other task failed too, or panicked
C16_Witness ==
    \E t \in Launched : \E u \in Launched \ {t} :
        /\ Len(batch[t]) > 0 /\ HoldsBatch(t)
        /\ pc[t] \in {"failed", "done"} /\ err[t] \in {"aggregate", "update"}
        /\ \/ pc[u] \in {"failed", "done"} /\ err[u] # "nil"
           \/ pc[u] = "panicked"

(***************************************************************************)
(* C17: for a symbol of 5 characters or more extractMetadata gives the     *)
(* option type P exactly when the character five from the end is P, and C  *)
(* otherwise; for a shorter symbol it gives no result but panics, so that  *)
(* the row becomes no Order and nothing of its file is stored.             *)
(***************************************************************************)
\* the option type the character five from the end stands for
OptionTypeAt5(symbol) == IF symbol[Len(symbol) - 4] = "P" THEN "P" ELSE "C"

\* the reading loop of LoadCSVFile gets to a row of the file whose symbol
\* has fewer than 5 characters: the rows before it are read and decoded
ReachesShortSymbol(file) ==
    /\ file.readable
    /\ Len(file.lines) >= 1 /\ file.lines[1].syntax
    /\ \E k \in DataLines(file) :
           /\ \A j \in 2..k :
                  /\ ~ReadErr(file.lines, j)
                  /\ Len(file.lines[j].fields) >= 7
                  /\ ~ParseTimestamp(file.lines[j].fields[1]).err
           /\ \A j \in 2..(k - 1) : Len(file.lines[j].fields[3]) >= 5
           /\ Len(file.lines[k].fields[3]) < 5

\* C17: the option type is read at the fixed offset; a short symbol gives
\* no result, and a file that has one reaches no Order and no store write
C17_OptionTypeOrNoResult ==
    /\ \A symbol \in {SymCE, SymPE, SymP4, SymDigits, SymShort,
                       <<"P", "1", "2", "3", "4">>, <<"P", "U", "T", "S">>, <<>>} :
           IF Len(symbol) >= 5
           THEN /\ ~extractMetadata(symbol).panic
                /\ extractMetadata(symbol).optionType = OptionTypeAt5(symbol)
           ELSE extractMetadata(symbol).panic
    /\ \A i \in 1..Len(orders) :
           /\ Len(orders[i].symbol) >= 5
           /\ orders[i].metadata.option_type = OptionTypeAt5(orders[i].symbol)
    /\ \A t \in Launched :
           ReachesShortSymbol(Content(matches[t]))
           => /\ pc[t] \in {"idle", "start", "panicked"}
              /\ batch[t] = <<>>
              /\ \A i \in 1..Len(orders) :
                     \E u \in Launched \ {t} :
                         \E j \in 1..Len(batch[u]) : orders[i] = BatchDocs(u)[j]

\* a task has panicked on a short symbol while the store holds a put of
\* another file
C17_Witness ==
    \E t \in Launched :
        /\ pc[t] = "panicked"
        /\ ReachesShortSymbol(Content(matches[t]))
        /\ \E i \in 1..Len(orders) : orders[i].metadata.option_type = "P"

(***************************************************************************)
(* C18: when the reader finds no record where the row after k decoded data *)
(* rows should be (the file ends there, or the line is malformed, or it    *)
(* has another number of fields than the header), LoadCSVFile stops        *)
(* reading as at the end of the input: it returns no error of the reader,  *)
(* the k rows are its batch, and once it has returned nil they are stored  *)
(* and the day of the k-th row has its summary; with k = 0 it returns nil  *)
(* and writes nothing.  Files are ingested one after another.              *)
(***************************************************************************)
\* the file has no record at line j: it ends before j, or line j is
\* malformed, or has another number of fields than the header
NoRecordAt(file, j) ==
    \/ j > Len(file.lines)
    \/ ~file.lines[j].syntax
    \/ Len(file.lines[j].fields) # Len(file.lines[1].fields)

\* the file opens, has a header and k data rows that decode, and no
\* record after them
EndsAfter(file, k) ==
    /\ file.readable
    /\ Len(file.lines) >= 1 /\ file.lines[1].syntax
    /\ k + 1 <= Len(file.lines)
    /\ \A j \in 2..(k + 1) :
           /\ ~NoRecordAt(file, j)
           /\ Len(file.lines[j].fields) >= 7
           /\ ~ParseTimestamp(file.lines[j].fields[1]).err
           /\ Len(file.lines[j].fields[3]) >= 5
    /\ NoRecordAt(file, k + 2)

\* what the claim expects of a file: the number k of rows read before the
\* line with no record (-1 for a file the claim is not about), the
\* documents of these rows and the timestamp of the k-th
EndOfInput(file) ==
    IF \E k \in 0..Len(file.lines) : EndsAfter(file, k)
    THEN LET k == CHOOSE j \in 0..Len(file.lines) : EndsAfter(file, j)
         IN  [k |-> k,
              docs |-> [i \in 1..k |-> OrderDoc(ExpectedDoc(file.lines[i + 1].fields))],
              last |-> ParseTimestamp(file.lines[k + 1].fields[1]).t]
    ELSE [k |-> 0 - 1, docs |-> <<>>, last |-> ZeroTime]

\* EndOfInput of every file a directory may hold
EndOfInputOf == [c \in 1..Len(Catalogue) |-> EndOfInput(Catalogue[c])]

\* C18: a read error after k rows ends the reading as the end of the
\* input does
C18_ReadErrorIsEndOfInput ==
    (Len(matches) = 1 /\ pc[1] \notin {"idle", "start"})
    => LET e == EndOfInputOf[matches[1].csv]
       IN  e.k >= 0
           => /\ pc[1] # "panicked"
              /\ err[1] \in {"nil", "insert", "aggregate", "update"}
              /\ BatchDocs(1) = e.docs
              /\ e.k = 0 => /\ pc[1] = "done" /\ err[1] = "nil"
                            /\ orders = OrdersAtStart
                            /\ summaries = SummariesAtStart
              /\ e.k > 0 => tradeDate[1] = e.last
              /\ (e.k > 0 /\ pc[1] = "done" /\ err[1] = "nil")
                     => /\ orders = OrdersAtStart \o BatchDocs(1)
                        /\ Reflects(StartOfDay(e.last))

\* the file whose second data row has three fields has been ingested:
\* LoadCSVFile returned nil, the first row is stored and its day has its
\* summary, the rows from the short one on are not stored
C18_Witness ==
    /\ Len(matches) = 1 /\ Ingested(1)
    /\ Len(Content(matches[1]).lines) = 4
    /\ EndsAfter(Content(matches[1]), 1)
    /\ Len(orders) = Len(OrdersAtStart) + 1
    /\ Reflects(StartOfDay(tradeDate[1]))

=============================================================================
